---------------------------- MODULE Spec2Model ----------------------------
(***************************************************************************)
(* Model of the authentication kit: the request gate (Authbase /  Auth     *)
(* middleware classes) and the server actions of AuthManager.ts with       *)
(* createSession of SessionManager.ts.                                     *)
(*                                                                         *)
(* Strings that the code inspects (paths, URLs) are sequences of string    *)
(* fragments; concatenation is \o and startsWith is the prefix test on     *)
(* fragments.  Dates are numbers of seconds.                               *)
(***************************************************************************)
EXTENDS Integers, Sequences, FiniteSets, TLC

VARIABLES
  config,         \* the AuthbaseConfig / AuthConfig the gate was built with
  req,            \* the request the gate is handling, and its response
  now,            \* the clock, in seconds
  users,          \* rows of table "user"
  verifications,  \* rows of table "verification"
  sessions,       \* rows of table "session"
  cookie,         \* the "session" cookie of the browser: {} or one cookie
  outbox,         \* the emails the notifier delivered, in order
  txs,            \* registration transactions started and not yet settled
  calls,          \* the server-action calls in flight, one per caller
  nextUserId,     \* uuidv4() for users: the next fresh id
  nextSessionId,  \* uuidv4() for sessions: the next fresh id
  started,        \* the number of calls made so far
  returned        \* what the call that ended in the last step returned

gateVars == <<config, req>>
authVars == <<now, users, verifications, sessions, cookie, outbox, txs, calls,
              nextUserId, nextSessionId, started, returned>>
vars == <<config, req, now, users, verifications, sessions, cookie, outbox,
          txs, calls, nextUserId, nextSessionId, started, returned>>

NULL == "null"    \* null / undefined

(***************************************************************************)
(* Bounds                                                                  *)
(***************************************************************************)
MaxRoutes == 1    \* entries in a configured route list
MaxPathLen == 3   \* fragments in a request path
MaxCalls == 2     \* calls of server actions in a run
MaxPasswordLen == 8  \* characters in a password argument

(***************************************************************************)
(* Strings                                                                 *)
(***************************************************************************)
Frag == {"/", "auth", "dashboard"}

RECURSIVE SeqsUpTo(_, _)
SeqsUpTo(S, n) ==
  IF n = 0 THEN {<<>>}
  ELSE LET shorter == SeqsUpTo(S, n - 1)
       IN  shorter \cup {Append(s, x) : s \in shorter, x \in S}

\* String.prototype.startsWith
StartsWith(url, route) ==
  /\ Len(route) <= Len(url)
  /\ SubSeq(url, 1, Len(route)) = route

\* a pathname always begins with "/"
Paths == {p \in SeqsUpTo(Frag, MaxPathLen) : Len(p) >= 1 /\ p[1] = "/"}

Origin == <<"http://localhost:3000">>
Searches == {<<>>, <<"?", "a=1">>, <<"?", "a=1", "&", "b=2">>}
CookieHeaders == {NULL, "", "session=token"}

\* the routes of the deployed configuration
RoutePool == {<<"/">>, <<"/", "auth", "/">>, <<"/", "dashboard">>}
RouteLists == SeqsUpTo(RoutePool, MaxRoutes)

DEFAULT_LOGOUT_REDIRECT_URL == <<"/", "auth", "/", "login">>

\* the configuration of the deployed middleware
authbase ==
  [publicEndpoints  |-> << <<"/">>, <<"/", "auth", "/">> >>,
   privateEndpoints |-> << <<"/", "dashboard">> >>,
   loginRedirectURL |-> DEFAULT_LOGOUT_REDIRECT_URL]

Configs ==
  {authbase} \cup
  [publicEndpoints : RouteLists, privateEndpoints : RouteLists,
   loginRedirectURL : {DEFAULT_LOGOUT_REDIRECT_URL}]

(***************************************************************************)
(* Route classification                                                    *)
(***************************************************************************)
\* Authbase
checkPublicEndpoint(cfg, url) ==
  \E i \in 1..Len(cfg.publicEndpoints) :
     url = cfg.publicEndpoints[i] \/ StartsWith(url, cfg.publicEndpoints[i])

\* mutant: exact match only, the prefix test forgotten
checkPrivateEndpoint_ExactOnly(cfg, url) ==
  \E i \in 1..Len(cfg.privateEndpoints) : url = cfg.privateEndpoints[i]

checkPrivateEndpoint(cfg, url) ==
  \E i \in 1..Len(cfg.privateEndpoints) :
     url = cfg.privateEndpoints[i] \/ StartsWith(url, cfg.privateEndpoints[i])

\* Auth: the same three fields under the names of AuthConfig
AuthConfigOf(cfg) ==
  [publicRoutes       |-> cfg.publicEndpoints,
   privateRoutes      |-> cfg.privateEndpoints,
   redirectToLoginURL |-> cfg.loginRedirectURL]

isPublicRoute(acfg, url) ==
  \E i \in 1..Len(acfg.publicRoutes) :
     url = acfg.publicRoutes[i] \/ StartsWith(url, acfg.publicRoutes[i])

isPrivateRoute(acfg, url) ==
  \E i \in 1..Len(acfg.privateRoutes) :
     url = acfg.privateRoutes[i] \/ StartsWith(url, acfg.privateRoutes[i])

(***************************************************************************)
(* Time, codes and inputs of the server actions                            *)
(***************************************************************************)
FiveMinutes == 300    \* 1000 * 60 * 5 ms
OneHour == 3600       \* 1000 * 60 * 60 ms
SessionSeconds == 10  \* expiresAt.setSeconds(expiresAt.getSeconds() + 10)
MinPasswordLength == 8

\* the instants at which the clock is read: a code issued at 0 is five
\* minutes old, five minutes from its expiry, five minutes past it
Instants == {0, FiveMinutes, OneHour - FiveMinutes, OneHour + FiveMinutes}

\* a nullable timestamp column: <<>> is null, <<t>> the date t
NoDate == <<>>
Date(t) == <<t>>

\* Math.floor(10000 + Math.random() * 90000) ranges over 10000..99999; the
\* two ends of the range stand for it
Codes == {10000, 99999}

\* the authCode argument: an array of decimal digits
AuthCodes == {<<1, 0, 0, 0, 0>>, <<9, 9, 9, 9, 9>>, <<>>}

NaN == -1

RECURSIVE DigitsValue(_)
DigitsValue(digits) ==
  IF digits = <<>> THEN 0
  ELSE 10 * DigitsValue(SubSeq(digits, 1, Len(digits) - 1))
       + digits[Len(digits)]

\* parseInt(authCode.join("")) for an array of digits 0..9
ParseAuthCode(authCode) ==
  IF authCode = <<>> THEN NaN ELSE DigitsValue(authCode)

Emails == {"a@x.com"}
\* the ids handed out so far and the next one, which no user has
UserIds == 1..nextUserId
\* the callers; each makes one call at a time
Callers == {1, 2}

Upper == {"A"}
Digit == {"1", "2"}
Abcdef12 == <<"A", "b", "c", "d", "e", "f", "1", "2">>
Passwords ==
  {Abcdef12,
   <<"A", "b", "1">>,
   <<"a", "b", "c", "d", "e", "f", "1", "2">>,
   <<"A", "b", "c", "d", "e", "f", "g", "h">>}
\* the confirmPassword argument: the valid password, or another one
ConfirmPasswords == {Abcdef12, <<"A", "b", "1">>}

\* the password arguments of the password checks: six lower-case letters
\* followed by every string over an upper-case letter, a lower-case letter
\* and a digit, up to MaxPasswordLen characters in all
Chars == {"A", "b", "1"}
Filler == <<"b", "b", "b", "b", "b", "b">>
PasswordInputs ==
  {Filler \o t : t \in SeqsUpTo(Chars, MaxPasswordLen - Len(Filler))}
\* the confirmations: two passwords that pass the three format checks
ConfirmInputs == {Filler \o <<"A", "1">>, Filler \o <<"1", "A">>}

\* the arguments of authenticateUser: the emails of a verified user, of an
\* unverified user and of nobody; the password of both users, another
\* well-formed password, and one that is too short
LoginEmails == {"a@x.com", "b@x.com", "c@x.com"}
Abcdef21 == <<"A", "b", "c", "d", "e", "f", "2", "1">>
LoginPasswords == {Abcdef12, Abcdef21, <<"A", "b", "1">>}

\* hashPassword: an opaque one-way value
hashPassword(password) == <<"hash", password>>

\* comparePassword(password, hash): the hash is a hash of the password
comparePassword(password, hash) == hash = hashPassword(password)

\* generateToken() called without await: the value is the pending promise
PendingPromise == "[object Promise]"

(***************************************************************************)
(* Outcomes                                                                *)
(***************************************************************************)
Outcome(status, message) == [status |-> status, message |-> message]
Error(message) == Outcome("error", message)
\* an exception that leaves the server action
Threw(what) == Outcome("threw", what)
\* redirect(url): throws NEXT_REDIRECT, which performs the redirect when it
\* leaves the server action
Redirect(url) == Outcome("redirect", url)

defaultLoginRedirect == "/dashboard"
defaultLogoutRedirect == "/auth/login"

(***************************************************************************)
(* Calls                                                                   *)
(***************************************************************************)
\* a call: its arguments and the locals that live across an await
IdleCall ==
  [op |-> "none", pc |-> "idle", userId |-> 0, authCode |-> <<>>,
   email |-> "", password |-> <<>>, confirmPassword |-> <<>>, code |-> 0,
   expiresAt |-> 0, at |-> 0, sessionId |-> 0]

\* what the call that ended in the last step returned (email, password,
\* confirmPassword: its arguments; userId, code, sessionId: its locals when
\* it returned; fault: it ended on a failure of storage, notifier or signer)
NoReturn ==
  [op |-> "none", email |-> "", password |-> <<>>, confirmPassword |-> <<>>,
   userId |-> 0, code |-> 0, sessionId |-> 0, fault |-> FALSE,
   ret |-> Outcome("none", "")]

Returns(c, outcome) ==
  [op |-> c.op, email |-> c.email, password |-> c.password,
   confirmPassword |-> c.confirmPassword, userId |-> c.userId,
   code |-> c.code, sessionId |-> c.sessionId, fault |-> FALSE,
   ret |-> outcome]

Fails(c, outcome) == [Returns(c, outcome) EXCEPT !.fault = TRUE]

\* callers are interchangeable: a call is made by the first free caller
Free(p) ==
  /\ calls[p].pc = "idle"
  /\ \A q \in Callers : q < p => calls[q].pc # "idle"

EmptyAuth ==
  /\ now = 0
  /\ users = {}
  /\ verifications = {}
  /\ sessions = {}
  /\ cookie = {}
  /\ outbox = <<>>
  /\ txs = {}
  /\ calls = [p \in Callers |-> IdleCall]
  /\ nextUserId = 1
  /\ nextSessionId = 1
  /\ started = 0
  /\ returned = NoReturn

\* expiresAt: new Date(Date.now() + 1000 * 60 * 60)
NewExpiry(t) == t + OneHour

\* the database as a completed registerUser("A", "a@x.com", "Abcdef12",
\* "Abcdef12") at time 0 leaves it
RegisteredAuth ==
  /\ now = 0
  /\ users = {[id |-> 1, name |-> "A", email |-> "a@x.com",
               password |-> hashPassword(Abcdef12), emailVerified |-> NoDate]}
  /\ verifications = {[userId |-> 1, code |-> 10000, expiresAt |-> NewExpiry(0)]}
  /\ sessions = {}
  /\ cookie = {}
  /\ outbox = <<[to |-> "a@x.com", code |-> 10000]>>
  /\ txs = {}
  /\ calls = [p \in Callers |-> IdleCall]
  /\ nextUserId = 2
  /\ nextSessionId = 1
  /\ started = 0
  /\ returned = NoReturn

InitAuth == EmptyAuth \/ RegisteredAuth

\* time passes
Tick(t) ==
  /\ t > now
  /\ now' = t
  /\ returned' = NoReturn
  /\ UNCHANGED <<users, verifications, sessions, cookie, outbox, txs, calls,
                 nextUserId, nextSessionId, started, gateVars>>

(***************************************************************************)
(* registerUser                                                            *)
(***************************************************************************)
\* mutant: the digit is looked for before the upper-case letter
PasswordError_DigitFirst(password, confirmPassword) ==
  IF Len(password) < MinPasswordLength
    THEN "Password must be at least 8 characters long"
  ELSE IF ~\E i \in 1..Len(password) : password[i] \in Digit
    THEN "Password must have at least one number"
  ELSE IF ~\E i \in 1..Len(password) : password[i] \in Upper
    THEN "Password must have at least one uppercase character"
  ELSE IF password # confirmPassword
    THEN "Passwords do not match"
  ELSE ""

\* the checks before any storage access
PasswordError(password, confirmPassword) ==
  IF Len(password) < MinPasswordLength
    THEN "Password must be at least 8 characters long"
  ELSE IF ~\E i \in 1..Len(password) : password[i] \in Upper
    THEN "Password must have at least one uppercase character"
  ELSE IF ~\E i \in 1..Len(password) : password[i] \in Digit
    THEN "Password must have at least one number"
  ELSE IF password # confirmPassword
    THEN "Passwords do not match"
  ELSE ""

\* an awaited query rejects: registerUser and verifyUserEmail (createSession
\* within it) catch it; resendUserEmailVerification has no try around its
\* queries and the exception leaves it
StorageFailure(c) ==
  Fails(c, IF c.op \in {"registerUser", "authenticateUser"}
             THEN Error("Unable to login to account")
           ELSE IF c.op = "verifyUserEmail" THEN Error("Unable to verify email")
           ELSE Threw("storage"))

\* registerUser up to the await of the email: the password checks, the
\* select by email (ok: it answers), the transaction started and not
\* awaited, the email handed to the notifier
registerUser(p, email, password, confirmPassword, code, ok) ==
  /\ Free(p)
  /\ started < MaxCalls
  /\ started' = started + 1
  /\ LET c == [IdleCall EXCEPT !.op = "registerUser", !.email = email,
                               !.password = password,
                               !.confirmPassword = confirmPassword]
         message == PasswordError(password, confirmPassword)
     IN  IF message # ""
         THEN /\ returned' = Returns(c, Error(message))
              /\ UNCHANGED <<txs, nextUserId, calls>>
         ELSE IF ~ok
         THEN /\ returned' = StorageFailure(c)
              /\ UNCHANGED <<txs, nextUserId, calls>>
         ELSE IF \E u \in users : u.email = email
         THEN /\ returned' = Returns(c, Error("Email already registered"))
              /\ UNCHANGED <<txs, nextUserId, calls>>
         ELSE /\ txs' = txs \cup {[userId |-> nextUserId, name |-> "A",
                                   email |-> email, password |-> password,
                                   code |-> code]}
              /\ nextUserId' = nextUserId + 1
              /\ calls' = [calls EXCEPT ![p] =
                             [c EXCEPT !.pc = "r_send", !.userId = nextUserId,
                                       !.code = code]]
              /\ returned' = NoReturn
  /\ UNCHANGED <<now, users, verifications, sessions, cookie, outbox,
                 nextSessionId, gateVars>>

\* the body of db.transaction commits: both rows appear together
accountTransaction(t) ==
  /\ t \in txs
  /\ ~\E u \in users : u.id = t.userId
  /\ ~\E v \in verifications : v.userId = t.userId
  /\ users' = users \cup {[id |-> t.userId, name |-> t.name, email |-> t.email,
                           password |-> hashPassword(t.password),
                           emailVerified |-> NoDate]}
  /\ verifications' = verifications \cup
                        {[userId |-> t.userId, code |-> t.code,
                          expiresAt |-> NewExpiry(now)]}
  /\ txs' = txs \ {t}
  /\ returned' = NoReturn
  /\ UNCHANGED <<now, sessions, cookie, outbox, calls, nextUserId,
                 nextSessionId, started, gateVars>>

\* the transaction fails and rolls back; nothing awaits its promise
accountTransactionRejected(t) ==
  /\ t \in txs
  /\ txs' = txs \ {t}
  /\ returned' = NoReturn
  /\ UNCHANGED <<now, users, verifications, sessions, cookie, outbox, calls,
                 nextUserId, nextSessionId, started, gateVars>>

\* resend.emails.send answered: delivered, or data.error set / a throw
registerUserSent(p, delivered) ==
  /\ calls[p].pc = "r_send"
  /\ LET c == calls[p]
     IN  IF delivered
         THEN /\ outbox' = Append(outbox, [to |-> c.email, code |-> c.code])
              /\ returned' = Returns(c, Outcome("success", "Verification email sent"))
         ELSE /\ outbox' = outbox
              /\ returned' = Fails(c, Error("Unable to send verification email"))
  /\ calls' = [calls EXCEPT ![p] = IdleCall]
  /\ UNCHANGED <<now, users, verifications, sessions, cookie, txs,
                 nextUserId, nextSessionId, started, gateVars>>

(***************************************************************************)
(* createSession, as called by verifyUserEmail                             *)
(***************************************************************************)
\* what verifyUserEmail returns once createSession has returned: the
\* redirect() of the success path throws NEXT_REDIRECT inside the try
\* block, and the catch turns it into the error outcome
verifyUserEmailOutcome(session) ==
  IF session.status = "error" THEN Error("Unable to create session")
  ELSE Error("Unable to verify email")

\* what authenticateUser returns once createSession has returned
authenticateUserOutcome(session) ==
  IF session.status = "error" THEN Error("Unable to create session")
  ELSE Outcome("success", "Logged in successfully")

\* what the call returns once createSession has returned: createSession
\* called directly returns its own outcome
createSessionOutcome(c, session) ==
  IF c.op = "verifyUserEmail" THEN verifyUserEmailOutcome(session)
  ELSE IF c.op = "authenticateUser" THEN authenticateUserOutcome(session)
  ELSE session

\* select user by id answered; the session values are computed and the
\* insert is sent
createSessionUser(p, ok) ==
  /\ calls[p].pc = "s_user"
  /\ LET c == calls[p]
         userResult == {u \in users : u.id = c.userId}
     IN  IF ~ok
         THEN /\ calls' = [calls EXCEPT ![p] = IdleCall]
              /\ returned' = StorageFailure(c)
              /\ UNCHANGED nextSessionId
         ELSE IF userResult = {}
         THEN /\ calls' = [calls EXCEPT ![p] = IdleCall]
              /\ returned' = Returns(c, createSessionOutcome(c, Error("User not found")))
              /\ UNCHANGED nextSessionId
         ELSE /\ calls' = [calls EXCEPT ![p] =
                  [c EXCEPT !.pc = "s_insert", !.sessionId = nextSessionId,
                            !.at = now, !.expiresAt = now + SessionSeconds]]
              /\ nextSessionId' = nextSessionId + 1
              /\ returned' = NoReturn
  /\ UNCHANGED <<now, users, verifications, sessions, cookie, outbox, txs,
                 nextUserId, started, gateVars>>

SessionRow(c) ==
  [id |-> c.sessionId, userId |-> c.userId, accessToken |-> PendingPromise,
   refreshToken |-> PendingPromise, expiresAt |-> c.expiresAt,
   createdAt |-> c.at]

\* mutant: the row replaces the earlier session rows of the user
createSessionInsert_OnePerUser(p, ok) ==
  /\ calls[p].pc = "s_insert"
  /\ IF ok
     THEN /\ sessions' = {s \in sessions : s.userId # calls[p].userId}
                            \cup {SessionRow(calls[p])}
          /\ calls' = [calls EXCEPT ![p].pc = "s_sign"]
          /\ returned' = NoReturn
     ELSE /\ sessions' = sessions
          /\ calls' = [calls EXCEPT ![p] = IdleCall]
          /\ returned' = StorageFailure(calls[p])
  /\ UNCHANGED <<now, users, verifications, cookie, outbox, txs, nextUserId,
                 nextSessionId, started, gateVars>>

\* the insert into sessions is done; signToken is called
createSessionInsert(p, ok) ==
  /\ calls[p].pc = "s_insert"
  /\ IF ok
     THEN /\ sessions' = sessions \cup {SessionRow(calls[p])}
          /\ calls' = [calls EXCEPT ![p].pc = "s_sign"]
          /\ returned' = NoReturn
     ELSE /\ sessions' = sessions
          /\ calls' = [calls EXCEPT ![p] = IdleCall]
          /\ returned' = StorageFailure(calls[p])
  /\ UNCHANGED <<now, users, verifications, cookie, outbox, txs, nextUserId,
                 nextSessionId, started, gateVars>>

\* mutant: the cookie lives for 10 seconds from the moment it is set
SessionCookie_FromNow(c) ==
  [session |-> [id |-> c.sessionId, userId |-> c.userId,
                accessToken |-> PendingPromise,
                refreshToken |-> PendingPromise, expiresAt |-> c.expiresAt],
   expires |-> now + SessionSeconds]

\* the value and the expiry of the cookie: the signed payload
SessionCookie(c) ==
  [session |-> [id |-> c.sessionId, userId |-> c.userId,
                accessToken |-> PendingPromise,
                refreshToken |-> PendingPromise, expiresAt |-> c.expiresAt],
   expires |-> c.expiresAt]

\* signToken answered: the cookie is set and createSession returns success;
\* or signToken / cookies().set threw and createSession returns its error
createSessionSign(p, signed) ==
  /\ calls[p].pc = "s_sign"
  /\ LET c == calls[p]
     IN  IF signed
         THEN /\ cookie' = {SessionCookie(c)}
              /\ returned' = Returns(c, createSessionOutcome(c,
                                Outcome("success", "Successfully created session")))
         ELSE /\ cookie' = cookie
              /\ returned' = Fails(c, createSessionOutcome(c,
                                Error("Unable to store local session")))
  /\ calls' = [calls EXCEPT ![p] = IdleCall]
  /\ UNCHANGED <<now, users, verifications, sessions, outbox, txs,
                 nextUserId, nextSessionId, started, gateVars>>

(***************************************************************************)
(* authenticateUser, createSession called directly, logoutUser            *)
(***************************************************************************)
\* the checks of authenticateUser before any storage access
LoginPasswordError(password) ==
  IF Len(password) < MinPasswordLength
    THEN "Password must be at least 8 characters long"
  ELSE IF ~\E i \in 1..Len(password) : password[i] \in Upper
    THEN "Password must have at least one uppercase character"
  ELSE IF ~\E i \in 1..Len(password) : password[i] \in Digit
    THEN "Password must have at least one number"
  ELSE ""

\* mutant: an unverified user is logged in like a verified one
Unverified_Never(user) == FALSE

\* mutant: the test of emailVerified is the wrong way round
Unverified_Inverted(user) == user.emailVerified # NoDate

\* !user.emailVerified
Unverified(user) == user.emailVerified = NoDate

\* authenticateUser up to its call of createSession: the checks, the select
\* by email and, on the row selected, comparePassword and the test of
\* emailVerified
authenticateUser(p, email, password, ok) ==
  /\ Free(p)
  /\ started < MaxCalls
  /\ started' = started + 1
  /\ LET c == [IdleCall EXCEPT !.op = "authenticateUser", !.email = email,
                               !.password = password]
         message == LoginPasswordError(password)
         result == {u \in users : u.email = email}
     IN  IF message # ""
         THEN /\ returned' = Returns(c, Error(message))
              /\ calls' = calls
         ELSE IF ~ok
         THEN /\ returned' = StorageFailure(c)
              /\ calls' = calls
         ELSE IF result = {}
         THEN /\ returned' = Returns(c, Error("Email was not found"))
              /\ calls' = calls
         ELSE \E user \in result :
                IF ~comparePassword(password, user.password)
                THEN /\ returned' = Returns(c, Error("Incorrect password"))
                     /\ calls' = calls
                ELSE IF Unverified(user)
                THEN /\ returned' = Returns([c EXCEPT !.userId = user.id],
                                            Outcome("unverified", ""))
                     /\ calls' = calls
                ELSE /\ calls' = [calls EXCEPT ![p] =
                                    [c EXCEPT !.pc = "s_user",
                                              !.userId = user.id]]
                     /\ returned' = NoReturn
  /\ UNCHANGED <<now, users, verifications, sessions, cookie, outbox, txs,
                 nextUserId, nextSessionId, gateVars>>

\* createSession(userId) called on its own
createSession(p, userId) ==
  /\ Free(p)
  /\ started < MaxCalls
  /\ started' = started + 1
  /\ calls' = [calls EXCEPT ![p] =
                 [IdleCall EXCEPT !.op = "createSession", !.pc = "s_user",
                                  !.userId = userId]]
  /\ returned' = NoReturn
  /\ UNCHANGED <<now, users, verifications, sessions, cookie, outbox, txs,
                 nextUserId, nextSessionId, gateVars>>

\* mutant: logging out deletes the session row of the cookie as well
logoutUser_RowDeleted(p) ==
  /\ Free(p)
  /\ started < MaxCalls
  /\ started' = started + 1
  /\ cookie' = {}
  /\ sessions' = {s \in sessions : \A ck \in cookie : s.id # ck.session.id}
  /\ LET c == [IdleCall EXCEPT !.op = "logoutUser"]
         sessionCookie == IF cookie = {} THEN 0
                          ELSE (CHOOSE ck \in cookie : TRUE).session.id
     IN  returned' = Returns([c EXCEPT !.sessionId = sessionCookie],
                             Redirect(defaultLogoutRedirect))
  /\ UNCHANGED <<now, users, verifications, outbox, txs, calls, nextUserId,
                 nextSessionId, gateVars>>

\* logoutUser: the cookie, when there is one, is set to "" with maxAge 0,
\* which removes it; the redirect follows either way
logoutUser(p) ==
  /\ Free(p)
  /\ started < MaxCalls
  /\ started' = started + 1
  /\ cookie' = {}
  /\ LET c == [IdleCall EXCEPT !.op = "logoutUser"]
         sessionCookie == IF cookie = {} THEN 0
                          ELSE (CHOOSE ck \in cookie : TRUE).session.id
     IN  returned' = Returns([c EXCEPT !.sessionId = sessionCookie],
                             Redirect(defaultLogoutRedirect))
  /\ UNCHANGED <<now, users, verifications, sessions, outbox, txs, calls,
                 nextUserId, nextSessionId, gateVars>>

(***************************************************************************)
(* verifyUserEmail                                                         *)
(***************************************************************************)
\* mutant: the emailVerified column is never looked at
EmailVerified_Never(user) == FALSE

\* user.emailVerified
EmailVerified(user) == user.emailVerified # NoDate

\* mutant: a code is expired at the instant of its expiry already
VerificationExpired_Inclusive(verification, t) == verification.expiresAt <= t

\* verification.expiresAt < new Date()
VerificationExpired(verification, t) == verification.expiresAt < t

\* verification.code !== parseInt(authCode.join(""))
CodeMismatch(verification, authCode) ==
  verification.code # ParseAuthCode(authCode)

\* the latest verification of a user: order by expiresAt desc, limit 1
LatestVerification(userId) ==
  LET rows == {v \in verifications : v.userId = userId}
  IN  {v \in rows : \A w \in rows : w.expiresAt <= v.expiresAt}

\* verifyUserEmail up to its second await: the select of the user answered
verifyUserEmail(p, userId, authCode, ok) ==
  /\ Free(p)
  /\ started < MaxCalls
  /\ started' = started + 1
  /\ LET c == [IdleCall EXCEPT !.op = "verifyUserEmail", !.userId = userId,
                               !.authCode = authCode]
         result == {u \in users : u.id = userId}
     IN  IF ~ok
         THEN returned' = StorageFailure(c) /\ UNCHANGED calls
         ELSE IF result = {}
         THEN returned' = Returns(c, Error("User not found")) /\ UNCHANGED calls
         ELSE IF \E user \in result : EmailVerified(user)
         THEN /\ returned' = Returns(c, Error("Email already verified"))
              /\ UNCHANGED calls
         ELSE /\ calls' = [calls EXCEPT ![p] = [c EXCEPT !.pc = "v_verif"]]
              /\ returned' = NoReturn
  /\ UNCHANGED <<now, users, verifications, sessions, cookie, outbox, txs,
                 nextUserId, nextSessionId, gateVars>>

\* select verification answered; on a match the update of the user is sent
verifyUserEmailVerification(p, ok) ==
  /\ calls[p].pc = "v_verif"
  /\ LET c == calls[p]
         verificationResult == LatestVerification(c.userId)
         verification == CHOOSE v \in verificationResult : TRUE
     IN  IF ~ok
         THEN /\ returned' = StorageFailure(c)
              /\ calls' = [calls EXCEPT ![p] = IdleCall]
         ELSE IF verificationResult = {}
         THEN /\ returned' = Returns(c, Error("Verification code not found"))
              /\ calls' = [calls EXCEPT ![p] = IdleCall]
         ELSE IF VerificationExpired(verification, now)
         THEN /\ returned' = Returns(c, Error("Verification code has expired"))
              /\ calls' = [calls EXCEPT ![p] = IdleCall]
         ELSE IF CodeMismatch(verification, c.authCode)
         THEN /\ returned' = Returns(c, Error("Incorrect verification code"))
              /\ calls' = [calls EXCEPT ![p] = IdleCall]
         ELSE /\ calls' = [calls EXCEPT ![p] =
                             [c EXCEPT !.pc = "v_update", !.at = now,
                                       !.authCode = <<>>,
                                       !.code = verification.code]]
              /\ returned' = NoReturn
  /\ UNCHANGED <<now, users, verifications, sessions, cookie, outbox, txs,
                 nextUserId, nextSessionId, started, gateVars>>

\* update users set emailVerified where id = userId is done; createSession
\* is called and sends its select
verifyUserEmailUpdate(p, ok) ==
  /\ calls[p].pc = "v_update"
  /\ LET c == calls[p]
     IN  IF ok
         THEN /\ users' = {IF u.id = c.userId
                           THEN [u EXCEPT !.emailVerified = Date(c.at)] ELSE u
                           : u \in users}
              /\ calls' = [calls EXCEPT ![p] = [c EXCEPT !.pc = "s_user", !.at = 0]]
              /\ returned' = NoReturn
         ELSE /\ users' = users
              /\ calls' = [calls EXCEPT ![p] = IdleCall]
              /\ returned' = StorageFailure(c)
  /\ UNCHANGED <<now, verifications, sessions, cookie, outbox, txs,
                 nextUserId, nextSessionId, started, gateVars>>

(***************************************************************************)
(* resendUserEmailVerification                                             *)
(***************************************************************************)
\* mutant: throttled also at exactly five minutes before the expiry
Throttled_Inclusive(verification, t) ==
  verification.expiresAt >= t + FiveMinutes

\* verification.expiresAt > new Date(Date.now() + 1000 * 60 * 5)
Throttled(verification, t) == verification.expiresAt > t + FiveMinutes

ThrottledMessage ==
  "Please wait a bit longer! You've already received a verification code less than 5 minutes ago."

\* resendUserEmailVerification up to its second await: the select of the
\* user answered
resendUserEmailVerification(p, userId, ok) ==
  /\ Free(p)
  /\ started < MaxCalls
  /\ started' = started + 1
  /\ LET c == [IdleCall EXCEPT !.op = "resendUserEmailVerification",
                               !.userId = userId]
         result == {u \in users : u.id = userId}
         user == CHOOSE u \in result : TRUE
     IN  IF ~ok
         THEN returned' = StorageFailure(c) /\ UNCHANGED calls
         ELSE IF result = {}
         THEN returned' = Returns(c, Error("User not found")) /\ UNCHANGED calls
         ELSE IF EmailVerified(user)
         THEN /\ returned' = Returns(c, Error("Email already verified"))
              /\ UNCHANGED calls
         ELSE /\ calls' = [calls EXCEPT ![p] =
                             [c EXCEPT !.pc = "e_verif", !.email = user.email]]
              /\ returned' = NoReturn
  /\ UNCHANGED <<now, users, verifications, sessions, cookie, outbox, txs,
                 nextUserId, nextSessionId, gateVars>>

\* select verification answered: the cooldown test, then the new code and
\* its expiry are computed and the update is sent
resendVerification(p, code, ok) ==
  /\ calls[p].pc = "e_verif"
  /\ LET c == calls[p]
         verificationResult == LatestVerification(c.userId)
     IN  IF ~ok
         THEN /\ returned' = StorageFailure(c)
              /\ calls' = [calls EXCEPT ![p] = IdleCall]
         ELSE IF \E verification \in verificationResult :
                    Throttled(verification, now)
         THEN /\ returned' = Returns(c, Error(ThrottledMessage))
              /\ calls' = [calls EXCEPT ![p] = IdleCall]
         ELSE /\ calls' = [calls EXCEPT ![p] =
                             [c EXCEPT !.pc = "e_update", !.code = code,
                                       !.expiresAt = NewExpiry(now)]]
              /\ returned' = NoReturn
  /\ UNCHANGED <<now, users, verifications, sessions, cookie, outbox, txs,
                 nextUserId, nextSessionId, started, gateVars>>

\* mutant: the new code is inserted as a further row
updateVerification_Insert(rows, userId, code, expiresAt) ==
  rows \cup {[userId |-> userId, code |-> code, expiresAt |-> expiresAt]}

\* update verifications set code, expiresAt where userId = userId
updateVerification(rows, userId, code, expiresAt) ==
  {IF v.userId = userId
   THEN [v EXCEPT !.code = code, !.expiresAt = expiresAt] ELSE v : v \in rows}

\* the update is done; the email is handed to the notifier
resendUpdate(p, ok) ==
  /\ calls[p].pc = "e_update"
  /\ LET c == calls[p]
     IN  IF ok
         THEN /\ verifications' = updateVerification(verifications, c.userId,
                                                     c.code, c.expiresAt)
              /\ calls' = [calls EXCEPT ![p] =
                             [c EXCEPT !.pc = "e_send", !.expiresAt = 0]]
              /\ returned' = NoReturn
         ELSE /\ verifications' = verifications
              /\ calls' = [calls EXCEPT ![p] = IdleCall]
              /\ returned' = StorageFailure(c)
  /\ UNCHANGED <<now, users, sessions, cookie, outbox, txs, nextUserId,
                 nextSessionId, started, gateVars>>

\* resend.emails.send answered: delivered, or data.error set / a throw
resendSent(p, delivered) ==
  /\ calls[p].pc = "e_send"
  /\ LET c == calls[p]
     IN  IF delivered
         THEN /\ outbox' = Append(outbox, [to |-> c.email, code |-> c.code])
              /\ returned' = Returns(c, Outcome("success", "Verification email sent"))
         ELSE /\ outbox' = outbox
              /\ returned' = Fails(c, Error("Unable to send verification email"))
  /\ calls' = [calls EXCEPT ![p] = IdleCall]
  /\ UNCHANGED <<now, users, verifications, sessions, cookie, txs,
                 nextUserId, nextSessionId, started, gateVars>>

(***************************************************************************)
(* The request gate                                                        *)
(***************************************************************************)
\* what the session endpoints answer: the status of the JSON body (NULL: a
\* body without status); Rejected: fetch or response.json() rejects.  A
\* request record holds the Cookie header and, in "session", the signed
\* session token that header carries ({}: none), with the number of calls
\* of server actions made before the client sent it in "sent"
Statuses == {"success", "expired", "error", NULL}
Rejected == "rejected"

IdleRequest ==
  [pc |-> "idle", gate |-> NULL, pathname |-> <<>>, search |-> <<>>,
   cookie |-> NULL, session |-> {}, sent |-> 0, fetches |-> <<>>,
   response |-> NULL]

\* request.nextUrl converted to a string, and request.url: the href
Href(r) == Origin \o r.pathname \o r.search

\* !sessionCookie
Falsy(c) == c = NULL \/ c = ""

ResponseNext == [kind |-> "next", location |-> <<>>]
ResponseThrew == [kind |-> "threw", location |-> <<>>]

\* mutant: the pathname appended instead of the URL
RedirectURL_PathOnly(loginRedirectURL, r) ==
  Origin \o loginRedirectURL \o <<"?redirect_uri=">> \o r.pathname

\* new URL(loginRedirectURL + "?redirect_uri=" + request.nextUrl, request.url)
\* with a path-absolute loginRedirectURL resolved against the request's origin
RedirectURL(loginRedirectURL, r) ==
  Origin \o loginRedirectURL \o <<"?redirect_uri=">> \o Href(r)

ResponseRedirect(loginRedirectURL, r) ==
  [kind |-> "redirect", location |-> RedirectURL(loginRedirectURL, r)]

\* session.status === "expired"
SessionExpired(status) == status = "expired"

\* mutant: everything but an explicit error counts as authenticated
SessionSuccess_NotError(status) == status # "error"

\* return session.status === "success"
SessionSuccess(status) == status = "success"

Finish(r, resp) == [r EXCEPT !.pc = "done", !.response = resp]

Fetched(r, method, status) ==
  [r EXCEPT !.fetches = Append(@, [method |-> method, status |-> status])]

\* Authbase.handleRequest up to its first await: classification, and of
\* verifyAuthentication the cookie test and the GET it sends
handleRequest(path, search, cookieHeader) ==
  /\ req.pc = "idle"
  /\ LET r == [req EXCEPT !.gate = "Authbase", !.pathname = path,
                                  !.search = search, !.cookie = cookieHeader]
         isPublicEndpoint == checkPublicEndpoint(config, path)
         isPrivateEndpoint == checkPrivateEndpoint(config, path)
     IN  req' =
           IF isPublicEndpoint /\ ~isPrivateEndpoint
           THEN Finish(r, ResponseNext)
           ELSE IF isPrivateEndpoint
           THEN IF Falsy(cookieHeader)
                THEN Finish(r, ResponseRedirect(config.loginRedirectURL, r))
                ELSE [r EXCEPT !.pc = "get"]
           ELSE Finish(r, ResponseNext)
  /\ UNCHANGED <<config, authVars>>

\* verifyAuthentication: the GET /api/authbase/session answers
verifyAuthenticationGet(status) ==
  /\ req.pc = "get" /\ req.gate = "Authbase"
  /\ LET r == Fetched(req, "GET", status)
     IN  req' =
           IF status = Rejected THEN Finish(r, ResponseThrew)
           ELSE IF SessionExpired(status) THEN [r EXCEPT !.pc = "refresh"]
           ELSE IF SessionSuccess(status) THEN Finish(r, ResponseNext)
           ELSE Finish(r, ResponseRedirect(config.loginRedirectURL, r))
  /\ UNCHANGED <<config, authVars>>

\* verifyAuthentication: the PUT /api/authbase/session/refresh answers
verifyAuthenticationRefresh(status) ==
  /\ req.pc = "refresh" /\ req.gate = "Authbase"
  /\ LET r == Fetched(req, "PUT", status)
     IN  req' =
           IF status = Rejected THEN Finish(r, ResponseThrew)
           ELSE IF SessionSuccess(status) THEN Finish(r, ResponseNext)
           ELSE Finish(r, ResponseRedirect(config.loginRedirectURL, r))
  /\ UNCHANGED <<config, authVars>>

\* Auth.middleware up to its first await
middleware(path, search, cookieHeader) ==
  /\ req.pc = "idle"
  /\ LET r == [req EXCEPT !.gate = "Auth", !.pathname = path,
                                  !.search = search, !.cookie = cookieHeader]
         acfg == AuthConfigOf(config)
         publicRoute == isPublicRoute(acfg, path)
         privateRoute == isPrivateRoute(acfg, path)
     IN  req' =
           IF publicRoute /\ ~privateRoute
           THEN Finish(r, ResponseNext)
           ELSE IF privateRoute
           THEN IF Falsy(cookieHeader)
                THEN Finish(r, ResponseRedirect(acfg.redirectToLoginURL, r))
                ELSE [r EXCEPT !.pc = "get"]
           ELSE Finish(r, ResponseNext)
  /\ UNCHANGED <<config, authVars>>

\* isAuthenticated: the GET /api/auth/session answers
isAuthenticatedGet(status) ==
  /\ req.pc = "get" /\ req.gate = "Auth"
  /\ LET r == Fetched(req, "GET", status)
         acfg == AuthConfigOf(config)
     IN  req' =
           IF status = Rejected THEN Finish(r, ResponseThrew)
           ELSE IF SessionExpired(status) THEN [r EXCEPT !.pc = "refresh"]
           ELSE IF SessionSuccess(status) THEN Finish(r, ResponseNext)
           ELSE Finish(r, ResponseRedirect(acfg.redirectToLoginURL, r))
  /\ UNCHANGED <<config, authVars>>

\* isAuthenticated: the PUT /api/auth/session/refresh answers
isAuthenticatedRefresh(status) ==
  /\ req.pc = "refresh" /\ req.gate = "Auth"
  /\ LET r == Fetched(req, "PUT", status)
         acfg == AuthConfigOf(config)
     IN  req' =
           IF status = Rejected THEN Finish(r, ResponseThrew)
           ELSE IF SessionSuccess(status) THEN Finish(r, ResponseNext)
           ELSE Finish(r, ResponseRedirect(acfg.redirectToLoginURL, r))
  /\ UNCHANGED <<config, authVars>>

\* the response leaves; the gate takes the next request
Respond ==
  /\ req.pc = "done"
  /\ req' = IdleRequest
  /\ UNCHANGED <<config, authVars>>

InitGate ==
  /\ config \in Configs
  /\ req = IdleRequest
  /\ EmptyAuth

NextGate ==
  \/ \E path \in Paths, search \in Searches, cookieHeader \in CookieHeaders :
        handleRequest(path, search, cookieHeader)
  \/ \E status \in Statuses \cup {Rejected} : verifyAuthenticationGet(status)
  \/ \E status \in Statuses \cup {Rejected} : verifyAuthenticationRefresh(status)
  \/ \E path \in Paths, search \in Searches, cookieHeader \in CookieHeaders :
        middleware(path, search, cookieHeader)
  \/ \E status \in Statuses \cup {Rejected} : isAuthenticatedGet(status)
  \/ \E status \in Statuses \cup {Rejected} : isAuthenticatedRefresh(status)
  \/ Respond

SpecGate == InitGate /\ [][NextGate]_vars

(***************************************************************************)
(* The server actions, called concurrently                                 *)
(***************************************************************************)
Init ==
  /\ config = authbase
  /\ req = IdleRequest
  /\ InitAuth

Next ==
  \/ \E p \in Callers, email \in Emails, password \in Passwords,
        confirmPassword \in ConfirmPasswords, code \in Codes, ok \in BOOLEAN :
        registerUser(p, email, password, confirmPassword, code, ok)
  \/ \E t \in txs : accountTransaction(t)
  \/ \E t \in txs : accountTransactionRejected(t)
  \/ \E p \in Callers, delivered \in BOOLEAN : registerUserSent(p, delivered)
  \/ \E p \in Callers, userId \in UserIds, authCode \in AuthCodes,
        ok \in BOOLEAN : verifyUserEmail(p, userId, authCode, ok)
  \/ \E p \in Callers, ok \in BOOLEAN : verifyUserEmailVerification(p, ok)
  \/ \E p \in Callers, ok \in BOOLEAN : verifyUserEmailUpdate(p, ok)
  \/ \E p \in Callers, ok \in BOOLEAN : createSessionUser(p, ok)
  \/ \E p \in Callers, ok \in BOOLEAN : createSessionInsert(p, ok)
  \/ \E p \in Callers, signed \in BOOLEAN : createSessionSign(p, signed)
  \/ \E p \in Callers, userId \in UserIds, ok \in BOOLEAN :
        resendUserEmailVerification(p, userId, ok)
  \/ \E p \in Callers, code \in Codes, ok \in BOOLEAN :
        resendVerification(p, code, ok)
  \/ \E p \in Callers, ok \in BOOLEAN : resendUpdate(p, ok)
  \/ \E p \in Callers, delivered \in BOOLEAN : resendSent(p, delivered)
  \/ \E t \in Instants : Tick(t)

Spec == Init /\ [][Next]_vars

(***************************************************************************)
(* registerUser alone, over the password arguments                         *)
(***************************************************************************)
InitPassword ==
  /\ config = authbase
  /\ req = IdleRequest
  /\ EmptyAuth

NextPassword ==
  \/ \E p \in Callers, email \in Emails, password \in PasswordInputs,
        confirmPassword \in ConfirmInputs, code \in Codes, ok \in BOOLEAN :
        registerUser(p, email, password, confirmPassword, code, ok)
  \/ \E t \in txs : accountTransaction(t)
  \/ \E t \in txs : accountTransactionRejected(t)
  \/ \E p \in Callers, delivered \in BOOLEAN : registerUserSent(p, delivered)

SpecPassword == InitPassword /\ [][NextPassword]_vars

(***************************************************************************)
(* Login and logout, for two registered users                             *)
(***************************************************************************)
\* the session token a Cookie header carries, as signToken made it
SessionTokens == {ck.session : ck \in cookie}

\* the token the client of the last logoutUser held: the payload signed for
\* the session of the cookie that was cleared
LoggedOutTokens ==
  IF returned.op = "logoutUser"
  THEN {[id |-> s.id, userId |-> s.userId, accessToken |-> s.accessToken,
         refreshToken |-> s.refreshToken, expiresAt |-> s.expiresAt] :
          s \in {r \in sessions : r.id = returned.sessionId}}
  ELSE {}

\* a client sends a request with a session token it has: the one of the
\* cookie, or the one it had when it logged out
presentSession(token) ==
  /\ req.pc = "idle"
  /\ req.session = {}
  /\ token \in SessionTokens \cup LoggedOutTokens
  /\ req' = [req EXCEPT !.session = {token}, !.sent = started]
  /\ UNCHANGED <<config, authVars>>

\* the Cookie header of the request
CookieHeaderOf(r) == IF r.session = {} THEN NULL ELSE "session=token"

\* GET /api/authbase/session: verifies signature and expiry of the token,
\* without a look at storage
validate(r, t) ==
  IF \E token \in r.session : t < token.expiresAt THEN "success"
  ELSE "expired"

\* PUT /api/authbase/session/refresh: succeeds while the session of the
\* token is in storage with the token's refresh token
refreshSession(r) ==
  IF \E token \in r.session : \E s \in sessions :
        s.id = token.id /\ s.refreshToken = token.refreshToken
  THEN "success"
  ELSE "error"

\* the instants of a session created at 0: its expiry and one second later
SessionInstants == {SessionSeconds, SessionSeconds + 1}

\* two users registered at 0 with the same password; the first has verified
\* the email then, which has created session 1 and set its cookie
InitSession ==
  /\ config = authbase
  /\ req = IdleRequest
  /\ now = 0
  /\ users = {[id |-> 1, name |-> "A", email |-> "a@x.com",
               password |-> hashPassword(Abcdef12), emailVerified |-> Date(0)],
              [id |-> 2, name |-> "A", email |-> "b@x.com",
               password |-> hashPassword(Abcdef12), emailVerified |-> NoDate]}
  /\ verifications = {[userId |-> 1, code |-> 10000, expiresAt |-> NewExpiry(0)],
                      [userId |-> 2, code |-> 99999, expiresAt |-> NewExpiry(0)]}
  /\ sessions = {SessionRow([IdleCall EXCEPT !.sessionId = 1, !.userId = 1,
                                             !.expiresAt = SessionSeconds])}
  /\ cookie = {SessionCookie([IdleCall EXCEPT !.sessionId = 1, !.userId = 1,
                                              !.expiresAt = SessionSeconds])}
  /\ outbox = <<[to |-> "a@x.com", code |-> 10000],
                [to |-> "b@x.com", code |-> 99999]>>
  /\ txs = {}
  /\ calls = [p \in Callers |-> IdleCall]
  /\ nextUserId = 3
  /\ nextSessionId = 2
  /\ started = 0
  /\ returned = NoReturn

NextSession ==
  \/ \E p \in Callers, email \in LoginEmails, password \in LoginPasswords,
        ok \in BOOLEAN : authenticateUser(p, email, password, ok)
  \/ \E p \in Callers, userId \in UserIds : createSession(p, userId)
  \/ \E p \in Callers, ok \in BOOLEAN : createSessionUser(p, ok)
  \/ \E p \in Callers, ok \in BOOLEAN : createSessionInsert(p, ok)
  \/ \E p \in Callers, signed \in BOOLEAN : createSessionSign(p, signed)
  \/ \E p \in Callers : logoutUser(p)
  \/ \E t \in SessionInstants : Tick(t)

SpecSession == InitSession /\ [][NextSession]_vars

(***************************************************************************)
(* Logout and the gate, for the client of session 1                        *)
(***************************************************************************)
NextLogout ==
  \/ \E p \in Callers : logoutUser(p)
  \/ \E token \in SessionTokens \cup LoggedOutTokens : presentSession(token)
  \/ \E path \in {<<"/", "dashboard">>, <<"/", "auth", "/">>} :
        handleRequest(path, <<>>, CookieHeaderOf(req))
  \/ verifyAuthenticationGet(validate(req, now))
  \/ verifyAuthenticationRefresh(refreshSession(req))
  \/ Respond
  \/ \E t \in SessionInstants : Tick(t)

SpecLogout == InitSession /\ [][NextLogout]_vars

(***************************************************************************)
(* The five server actions of an account, called concurrently              *)
(***************************************************************************)
NextAccount ==
  \/ \E p \in Callers, email \in Emails, code \in Codes, ok \in BOOLEAN :
        registerUser(p, email, Abcdef12, Abcdef12, code, ok)
  \/ \E t \in txs : accountTransaction(t)
  \/ \E t \in txs : accountTransactionRejected(t)
  \/ \E p \in Callers, delivered \in BOOLEAN : registerUserSent(p, delivered)
  \/ \E p \in Callers, email \in Emails, password \in {Abcdef12, Abcdef21},
        ok \in BOOLEAN : authenticateUser(p, email, password, ok)
  \/ \E p \in Callers, userId \in UserIds, authCode \in AuthCodes,
        ok \in BOOLEAN : verifyUserEmail(p, userId, authCode, ok)
  \/ \E p \in Callers, ok \in BOOLEAN : verifyUserEmailVerification(p, ok)
  \/ \E p \in Callers, ok \in BOOLEAN : verifyUserEmailUpdate(p, ok)
  \/ \E p \in Callers, ok \in BOOLEAN : createSessionUser(p, ok)
  \/ \E p \in Callers, ok \in BOOLEAN : createSessionInsert(p, ok)
  \/ \E p \in Callers, signed \in BOOLEAN : createSessionSign(p, signed)
  \/ \E p \in Callers, userId \in UserIds, ok \in BOOLEAN :
        resendUserEmailVerification(p, userId, ok)
  \/ \E p \in Callers, code \in Codes, ok \in BOOLEAN :
        resendVerification(p, code, ok)
  \/ \E p \in Callers, ok \in BOOLEAN : resendUpdate(p, ok)
  \/ \E p \in Callers, delivered \in BOOLEAN : resendSent(p, delivered)
  \/ \E p \in Callers : logoutUser(p)
  \/ \E t \in Instants : Tick(t)

SpecAccount == Init /\ [][NextAccount]_vars

(***************************************************************************)
(* Properties of the request gate                                          *)
(***************************************************************************)
\* route is a prefix of path (or equal to it)
IsPrefixOf(route, path) ==
  \E k \in 0..Len(path) : SubSeq(path, 1, k) = route

MatchesPrivate ==
  \E i \in 1..Len(config.privateEndpoints) :
     IsPrefixOf(config.privateEndpoints[i], req.pathname)

MatchesPublic ==
  \E i \in 1..Len(config.publicEndpoints) :
     IsPrefixOf(config.publicEndpoints[i], req.pathname)

Allowed == req.pc = "done" /\ req.response.kind = "next"
Redirected == req.pc = "done" /\ req.response.kind = "redirect"
LastFetch == req.fetches[Len(req.fetches)]

GetSuccess ==
  /\ Len(req.fetches) = 1
  /\ req.fetches[1] = [method |-> "GET", status |-> "success"]

RefreshSuccess ==
  /\ Len(req.fetches) = 2
  /\ req.fetches[1] = [method |-> "GET", status |-> "expired"]
  /\ req.fetches[2] = [method |-> "PUT", status |-> "success"]

\* C1: a request whose path matches a private prefix, also when it matches a
\* public prefix too, is let through only after a session validation call
\* answered "success".
C1_PrivateNeedsValidation ==
  (req.pc # "idle" /\ MatchesPrivate /\ Allowed) =>
     /\ req.fetches # <<>>
     /\ LastFetch.status = "success"

\* C1 witness: a path matching a public and a private prefix was handled and
\* let through after a successful validation.
C1_Witness ==
  /\ MatchesPrivate /\ MatchesPublic /\ Allowed
  /\ req.fetches # <<>> /\ LastFetch.status = "success"

\* C2: a private path is allowed only with a cookie and "success" from the
\* GET, or from the one PUT that follows a GET answering "expired" (sent
\* when and only when the GET answered "expired"); every other answer, or
\* no cookie, yields a redirect; a path matching no private prefix is
\* allowed with no call made.
C2_GateDecision ==
  /\ (req.pc # "idle" /\ ~MatchesPrivate) => (Allowed /\ req.fetches = <<>>)
  /\ (req.pc # "idle" /\ MatchesPrivate) =>
       /\ Allowed => (~Falsy(req.cookie) /\ (GetSuccess \/ RefreshSuccess))
       /\ Len(req.fetches) <= 2
       /\ \A i \in 1..Len(req.fetches) :
             req.fetches[i].method = (IF i = 1 THEN "GET" ELSE "PUT")
       /\ Len(req.fetches) = 2 => req.fetches[1].status = "expired"
       /\ (req.pc = "done" /\ req.fetches # <<>>
             /\ req.fetches[1].status = "expired") => Len(req.fetches) = 2
       /\ Falsy(req.cookie) => (Redirected /\ req.fetches = <<>>)
       /\ (req.pc = "done" /\ req.fetches # <<>>
             /\ LastFetch.status \notin {"success", Rejected}) => Redirected

\* C2 witness: a private path allowed on the refresh that followed an
\* expired answer.
C2_Witness == MatchesPrivate /\ Allowed /\ RefreshSuccess

\* the value of the redirect_uri parameter of a URL: what follows
\* "?redirect_uri=" up to the next "&"
RedirectUriParam(location) ==
  LET i == CHOOSE i \in 1..Len(location) :
              /\ location[i] = "?redirect_uri="
              /\ \A j \in 1..(i - 1) : location[j] # "?redirect_uri="
      rest == SubSeq(location, i + 1, Len(location))
      amps == {j \in 1..Len(rest) : rest[j] = "&"}
      stop == IF amps = {} THEN Len(rest) + 1
              ELSE CHOOSE j \in amps : \A k \in amps : j <= k
  IN  SubSeq(rest, 1, stop - 1)

\* the URL before its query
BeforeQuery(location) ==
  LET i == CHOOSE i \in 1..Len(location) :
              /\ location[i] = "?redirect_uri="
              /\ \A j \in 1..(i - 1) : location[j] # "?redirect_uri="
  IN  SubSeq(location, 1, i - 1)

\* the gate rejected a request to a private path: no cookie, or an answer
\* other than "success"
Rejects ==
  /\ req.pc = "done" /\ MatchesPrivate
  /\ \/ Falsy(req.cookie)
     \/ req.fetches # <<>> /\ LastFetch.status \notin {"success", Rejected}

\* the first parameter of the request's own query, cut at its first "&"
FirstParamOf(search) ==
  IF \E j \in 1..Len(search) : search[j] = "&"
  THEN SubSeq(search, 1,
              (CHOOSE j \in 1..Len(search) :
                  search[j] = "&" /\ \A k \in 1..(j - 1) : search[k] # "&") - 1)
  ELSE search

RowsOf(userId) == {v \in verifications : v.userId = userId}

\* the user row with an id is there, with or without emailVerified
Registered(userId) == \E u \in users : u.id = userId
Verified(userId) == \E u \in users : u.id = userId /\ u.emailVerified # NoDate

\* the step is the first of a call of op that returns at once, and not on
\* a failure of storage
RejectsAtOnce(op) ==
  /\ started' = started + 1
  /\ returned'.op = op
  /\ ~returned'.fault

\* the step takes caller p's call from one await to another
Moves(p, from, to) == calls[p].pc = from /\ calls'[p].pc = to

\* the step ends caller p's call at the await "from", not on a failure of
\* storage
Ends(p, from) ==
  /\ calls[p].pc = from
  /\ calls'[p].pc = "idle"
  /\ ~returned'.fault

C4_Step ==
  /\ \A p \in Callers :
       LET c == calls[p]
           rows == RowsOf(c.userId)
       IN  /\ Moves(p, "idle", "v_verif") =>
                /\ Registered(calls'[p].userId)
                /\ ~Verified(calls'[p].userId)
           /\ Moves(p, "v_verif", "v_update") =>
                /\ Registered(c.userId)
                /\ Cardinality(rows) = 1
                /\ \A v \in rows :
                      /\ v.expiresAt >= now
                      /\ v.code = ParseAuthCode(c.authCode)
           /\ Ends(p, "v_verif") =>
                /\ returned'.op = "verifyUserEmail"
                /\ UNCHANGED <<users, verifications, sessions, cookie>>
                /\ \/ /\ returned'.ret = Error("Verification code not found")
                      /\ rows = {}
                   \/ /\ returned'.ret = Error("Verification code has expired")
                      /\ rows # {}
                      /\ \A v \in rows : v.expiresAt < now
                   \/ /\ returned'.ret = Error("Incorrect verification code")
                      /\ rows # {}
                      /\ \A v \in rows :
                            /\ v.expiresAt >= now
                            /\ v.code # ParseAuthCode(c.authCode)
  /\ RejectsAtOnce("verifyUserEmail") =>
       /\ UNCHANGED <<users, verifications, sessions, cookie>>
       /\ \/ /\ returned'.ret = Error("User not found")
             /\ ~Registered(returned'.userId)
          \/ /\ returned'.ret = Error("Email already verified")
             /\ Verified(returned'.userId)

\* C4: verifyUserEmail goes on to mark the user verified only if, when it
\* read them, the user existed and was not verified, the user had exactly
\* one stored code (the last one issued), the clock was not past its expiry
\* and the submitted code equalled it; otherwise it returns the error of
\* the first check that failed (user not found, already verified, code not
\* found, expired, mismatch) and leaves users, verifications, sessions and
\* the cookie as they were.
C4_ValidationLadder == [][C4_Step]_vars

\* C4 witness: a call returned "Incorrect verification code" for a user
\* whose stored code had not expired.
C4_Witness ==
  /\ returned.op = "verifyUserEmail"
  /\ returned.ret = Error("Incorrect verification code")
  /\ \E v \in RowsOf(returned.userId) : v.expiresAt >= now

C5_Step ==
  /\ \A u \in users :
       u.emailVerified # NoDate =>
          \E w \in users' : w.id = u.id /\ w.emailVerified # NoDate
  /\ \A p \in Callers :
       /\ (Moves(p, "idle", "v_verif") \/ Moves(p, "idle", "e_verif")) =>
             ~Verified(calls'[p].userId)
       /\ Moves(p, "v_verif", "v_update") =>
             \A v \in RowsOf(calls[p].userId) : v.expiresAt >= now
  /\ \A op \in {"verifyUserEmail", "resendUserEmailVerification"} :
       (RejectsAtOnce(op) /\ Verified(returned'.userId)) =>
          /\ returned'.ret = Error("Email already verified")
          /\ UNCHANGED <<users, verifications, sessions, cookie, outbox, txs>>

\* C5: a user once verified stays verified; every verifyUserEmail and
\* resendUserEmailVerification that reads a verified user returns "Email
\* already verified" and changes nothing; and no verifyUserEmail gets past
\* its checks while the stored code's expiry is in the past.
C5_VerifiedIsTerminal == [][C5_Step]_vars

\* C5 witness: after a verifyUserEmail that verified the user and inserted
\* its session, a resend for that user returned "Email already verified".
C5_Witness ==
  /\ returned.op = "resendUserEmailVerification"
  /\ returned.ret = Error("Email already verified")
  /\ \E s \in sessions : s.userId = returned.userId

C6_OneRow ==
  /\ \A u \in users : Cardinality(RowsOf(u.id)) = 1
  /\ \A v \in verifications : Registered(v.userId)

C6_Step ==
  /\ C6_OneRow'
  /\ \A p \in Callers :
       Moves(p, "e_update", "e_send") =>
          LET c == calls[p]
          IN  /\ {v \in verifications' : v.userId = c.userId}
                    = {[userId |-> c.userId, code |-> c.code,
                        expiresAt |-> c.expiresAt]}
              /\ {v \in verifications' : v.userId # c.userId}
                    = {v \in verifications : v.userId # c.userId}

\* C6: in every reachable state each registered user has exactly one
\* verification row, and every update of a resend leaves, in the place of
\* the user's row, the row with the code and expiry of that resend: the
\* last of several concurrent resends to write is the one that remains.
C6_OneCodePerUser == C6_OneRow /\ [][C6_Step]_vars

\* C6 witness: two concurrent resends for one user with different codes
\* have both written, and the user has one row.
C6_Witness ==
  /\ \A p \in Callers : calls[p].pc = "e_send"
  /\ calls[1].userId = calls[2].userId
  /\ calls[1].code # calls[2].code
  /\ Cardinality(RowsOf(calls[1].userId)) = 1

C7_Step ==
  \A p \in Callers :
    LET c == calls[p]
        rows == RowsOf(c.userId)
        early == \E v \in rows : now + FiveMinutes < v.expiresAt
    IN  /\ Ends(p, "e_verif") =>
             /\ early
             /\ returned'.ret = Error(ThrottledMessage)
             /\ UNCHANGED verifications
        /\ Moves(p, "e_verif", "e_update") =>
             /\ ~early
             /\ calls'[p].code \in 10000..99999
             /\ calls'[p].expiresAt = now + OneHour
             /\ UNCHANGED verifications
        /\ Moves(p, "e_update", "e_send") =>
             {v \in verifications' : v.userId = c.userId}
                = {[userId |-> c.userId, code |-> c.code,
                    expiresAt |-> c.expiresAt]}

IssuedAt(verification) == verification.expiresAt - OneHour

\* C8 (as stated): a resend is rejected as throttled only when the user's
\* current code was issued less than 5 minutes ago.
C8_ThrottledWithinFiveMinutes ==
  (/\ returned.op = "resendUserEmailVerification"
   /\ returned.ret = Error(ThrottledMessage)) =>
     \A v \in RowsOf(returned.userId) : now - IssuedAt(v) < FiveMinutes

\* C9 (as stated): a verifyUserEmail that passed its checks and met no
\* failure of storage or signer ends in the redirect to the post-login URL,
\* with the user verified, one session row of that call inserted and the
\* session cookie set.
C9_VerifyEndsInRedirect ==
  (/\ returned.op = "verifyUserEmail"
   /\ ~returned.fault
   /\ returned.code # 0) =>
     /\ returned.ret = Redirect(defaultLoginRedirect)
     /\ Verified(returned.userId)
     /\ Cardinality({s \in sessions : s.id = returned.sessionId
                                        /\ s.userId = returned.userId}) = 1
     /\ \E k \in cookie : k.session.id = returned.sessionId

\* C10 (as stated): when registerUser returns "success" the user row,
\* unverified, and its verification row with the code in 10000..99999 and
\* an expiry at most one hour ahead are in storage, and one email with that
\* code has been sent.
C10_CommittedOnSuccess ==
  (/\ returned.op = "registerUser"
   /\ returned.ret.status = "success") =>
     /\ Registered(returned.userId)
     /\ ~Verified(returned.userId)
     /\ \E v \in RowsOf(returned.userId) :
           /\ v.code = returned.code
           /\ v.code \in 10000..99999
           /\ v.expiresAt <= now + OneHour
     /\ Cardinality({i \in 1..Len(outbox) : outbox[i].code = returned.code}) = 1

\* C11 (as stated): the users store never holds two users with the same
\* email, whatever the interleaving of registerUser calls.
C11_EmailsUnique ==
  \A u \in users : \A w \in users : u.email = w.email => u.id = w.id

\* C14 (as stated): no exception escapes a public operation: whenever a
\* storage read or write, the notifier or the signer fails, the server
\* action returns a structured outcome.
C14_NoExceptionEscapes == returned.ret.status # "threw"

\* the outcome of registerUser and resendUserEmailVerification when the
\* code was stored and the email could not be delivered
DeliveryFailure == Error("Unable to send verification email")

\* the transaction of a registerUser call settled without its rows: it was
\* rejected
StoringFailed(userId) ==
  /\ userId # 0
  /\ ~\E u \in users : u.id = userId
  /\ ~\E t \in txs : t.userId = userId

\* C15 (as stated): a registerUser whose storing of the code failed never
\* returns the outcome that is returned when the code was stored and the
\* email could not be delivered.
C15_DeliveryDistinctFromStorage ==
  (returned.op = "registerUser" /\ StoringFailed(returned.userId)) =>
     returned.ret # DeliveryFailure

(***************************************************************************)
(* Properties of the password checks                                       *)
(***************************************************************************)
\* the rejections of registerUser in their order: what each looks for, and
\* its message
TooShort(password) == Len(password) < 8
NoUpperCase(password) == \A i \in 1..Len(password) : password[i] # "A"
NoDigit(password) == \A i \in 1..Len(password) : password[i] \notin {"1", "2"}

Rejections(password, confirmPassword) ==
  << [fails |-> TooShort(password),
      message |-> "Password must be at least 8 characters long"],
     [fails |-> NoUpperCase(password),
      message |-> "Password must have at least one uppercase character"],
     [fails |-> NoDigit(password),
      message |-> "Password must have at least one number"],
     [fails |-> password # confirmPassword,
      message |-> "Passwords do not match"] >>

PasswordMessages ==
  {Rejections(<<>>, <<>>)[i].message : i \in 1..4}

FailedChecks(c) ==
  {i \in 1..4 : Rejections(c.password, c.confirmPassword)[i].fails}

\* the answer to a call with these arguments is the first rejection that
\* applies, and no rejection when none does
C20_Answer ==
  returned.op = "registerUser" =>
    IF FailedChecks(returned) = {}
    THEN returned.ret.message \notin PasswordMessages
    ELSE /\ \E i \in FailedChecks(returned) :
              /\ \A j \in FailedChecks(returned) : i <= j
              /\ returned.ret =
                   Error(Rejections(returned.password,
                                    returned.confirmPassword)[i].message)
         /\ ~returned.fault

\* a call goes on to storage only with arguments that pass every check
C20_Proceeds ==
  \A p \in Callers :
     calls[p].op = "registerUser" => FailedChecks(calls[p]) = {}

\* a rejection changes nothing but the answer
C20_Step ==
  (RejectsAtOnce("registerUser") /\ returned'.ret.message \in PasswordMessages)
    => UNCHANGED <<users, verifications, sessions, cookie, outbox, txs,
                   calls, nextUserId>>

\* C20: registerUser rejects with the message of the first of these that
\* applies, in this order: a password shorter than 8 characters, one
\* without an upper-case letter, one without a digit, a confirmation that
\* differs; it does so whether or not storage answers, with no row, no
\* transaction and no email produced, and rejects no other password with
\* one of these messages.
C20_PasswordChecksInOrder ==
  [](C20_Answer /\ C20_Proceeds) /\ [][C20_Step]_vars

\* C20 witness: a password that is too short and has neither an upper-case
\* letter nor a digit was rejected for its length, and nothing was stored
\* or sent.
C20_Witness ==
  /\ returned.op = "registerUser"
  /\ FailedChecks(returned) = {1, 2, 3, 4}
  /\ returned.ret = Error("Password must be at least 8 characters long")
  /\ users = {} /\ txs = {} /\ outbox = <<>>

(***************************************************************************)
(* Properties of login, sessions and logout                                *)
(***************************************************************************)
\* the step is a call of logoutUser
LogsOut == started' = started + 1 /\ returned'.op = "logoutUser"

C13_Step ==
  LogsOut =>
    /\ UNCHANGED <<users, verifications, sessions>>
    /\ cookie' = {}
    /\ returned'.ret = Redirect("/auth/login")
    /\ \A ck \in cookie :
          /\ returned'.sessionId = ck.session.id
          /\ \E s \in sessions' : s.id = ck.session.id

\* C13: logoutUser leaves users, verifications and sessions as they are, so
\* that the row of the session it logs out is still there; it leaves no
\* session cookie behind, and it redirects to the logout URL with and
\* without a cookie.
C13_LogoutClearsCookieOnly == [][C13_Step]_vars

\* C13 witness: logoutUser has cleared the cookie of a session and the row
\* of that session is in storage.
C13_Witness ==
  /\ returned.op = "logoutUser"
  /\ returned.ret = Redirect("/auth/login")
  /\ cookie = {}
  /\ \E s \in sessions : s.id = returned.sessionId

\* the request at the gate was sent after logoutUser had returned, with the
\* token of the session that was logged out
PresentsLoggedOut ==
  /\ returned.op = "logoutUser"
  /\ returned.sessionId # 0
  /\ req.sent = started
  /\ \E token \in req.session : token.id = returned.sessionId

\* C12 (as stated): a request to a private path that is sent after
\* logoutUser has run, with the signed token of the session that was logged
\* out, is not allowed by the gate.
C12_NoRevival == (PresentsLoggedOut /\ MatchesPrivate) => ~Allowed

\* the step is the successful end of a createSession
CreatesSession == \E p \in Callers : Ends(p, "s_sign")

C16_Step ==
  CreatesSession =>
    \E ck \in cookie' : \E s \in sessions' :
       /\ cookie' = {ck}
       /\ s.id = returned'.sessionId
       /\ s.expiresAt = s.createdAt + 10
       /\ ck.expires = s.expiresAt
       /\ ck.session.expiresAt = s.expiresAt
       /\ ck.session.id = s.id
       /\ ck.session.userId = s.userId
       /\ ck.session.accessToken = s.accessToken
       /\ ck.session.refreshToken = s.refreshToken

\* C16: when createSession succeeds, the cookie it has set expires at the
\* expiresAt of the row it inserted, which is the row's createdAt plus 10
\* seconds and also the expiry in the signed payload; and the payload's
\* session id, user id, access token and refresh token are those of the
\* row.
C16_OneExpiry == [][C16_Step]_vars

\* C16 witness: a session created at 0 got its cookie after its 10 seconds
\* had passed; the cookie expires at 10 like the row.
C16_Witness ==
  /\ returned.ret.status = "success"
  /\ now > SessionSeconds
  /\ \E ck \in cookie : \E s \in sessions :
        /\ s.id = returned.sessionId /\ ck.session.id = s.id
        /\ s.createdAt = 0 /\ ck.expires = SessionSeconds

SessionsOf(userId) == {s \in sessions : s.userId = userId}

\* a createSession(userId) for an id without a user row ends at its select
\* with "User not found" and neither a row nor a cookie, and never reaches
\* the insert; the calls that reach the insert add one row, with a new id,
\* and no other step of a call adds or removes one
C17_Step ==
  /\ \A p \in Callers :
       /\ (/\ calls[p].op = "createSession"
           /\ Ends(p, "s_user")
           /\ ~\E u \in users : u.id = calls[p].userId)
          => /\ returned'.ret = Error("User not found")
             /\ UNCHANGED <<sessions, cookie>>
       /\ Moves(p, "s_user", "s_insert")
          => \E u \in users : u.id = calls[p].userId
       /\ Moves(p, "s_insert", "s_sign")
          => \E s \in sessions' :
                /\ s.userId = calls[p].userId
                /\ \A r \in sessions : r.id # s.id
                /\ sessions' = sessions \cup {s}
       /\ Ends(p, "s_sign")
          => /\ sessions' = sessions
             /\ Cardinality({s \in sessions : s.id = returned'.sessionId}) = 1
  /\ (\A p \in Callers : ~Moves(p, "s_insert", "s_sign"))
     => sessions' = sessions

\* C17: createSession(userId) for an id that no user row has returns "User
\* not found", inserts no session row and sets no cookie; a call that
\* succeeds has inserted exactly one row; and nothing keeps a user from
\* having several session rows.
C17_OneRowPerCreatedSession == [][C17_Step]_vars

\* C17 witness: createSession for the unknown id 3 has returned "User not
\* found" while user 1 has two session rows, of two sessions created one
\* after the other.
C17_Witness ==
  /\ returned.op = "createSession"
  /\ returned.userId = 3
  /\ returned.ret = Error("User not found")
  /\ Cardinality(SessionsOf(1)) = 2

\* a token value that is the result of a completed generateToken call
Resolved(token) == token # "[object Promise]"

\* C18 (as stated): the access token and the refresh token that
\* createSession writes to the session row and into the signed payload are
\* resolved token values, never a pending computation.
C18_TokensResolved ==
  /\ \A s \in sessions : Resolved(s.accessToken) /\ Resolved(s.refreshToken)
  /\ \A ck \in cookie :
        Resolved(ck.session.accessToken) /\ Resolved(ck.session.refreshToken)

\* the users a login with these arguments is for: email and password match
Matching(c) ==
  {u \in users : u.email = c.email /\ u.password = <<"hash", c.password>>}

C19_Step ==
  /\ \A p \in Callers :
       \* the call goes on to createSession
       (/\ calls[p].pc = "idle"
        /\ calls'[p].op = "authenticateUser"
        /\ calls'[p].pc = "s_user")
       => /\ \E u \in Matching(calls'[p]) :
                u.emailVerified # NoDate /\ u.id = calls'[p].userId
          /\ UNCHANGED <<sessions, cookie>>
  /\ RejectsAtOnce("authenticateUser")
     => /\ UNCHANGED <<users, verifications, sessions, cookie, outbox, calls>>
        /\ Matching(returned') = {} => returned'.ret.status = "error"
        /\ \A u \in Matching(returned') :
              /\ u.emailVerified = NoDate
              /\ returned'.ret.status = "unverified"
              /\ returned'.userId = u.id

\* C19: authenticateUser goes on to createSession only for the id of a user
\* who has the email, whose hash the password verifies against and whose
\* email is verified; called with the email and password of an unverified
\* user it returns the status "unverified" with that user's id; called
\* with an unknown email or a wrong password it returns an error; and in
\* every case in which it returns without createSession, no row and no
\* cookie has changed.
C19_LoginOnlyWhenVerified == [][C19_Step]_vars

\* C19 witness: the unverified user 2 logged in with the right password and
\* got "unverified" with id 2; session 1 is the only session.
C19_Witness ==
  /\ returned.op = "authenticateUser"
  /\ returned.email = "b@x.com"
  /\ returned.ret.status = "unverified"
  /\ returned.userId = 2
  /\ \A s \in sessions : s.id = 1

(***************************************************************************)
(* Properties of the five server actions together                          *)
(***************************************************************************)
\* the user with this id exists and has emailVerified set
VerifiedUser(userId) ==
  \E u \in users : u.id = userId /\ u.emailVerified # <<>>

\* C21: in every state reached by calls of registerUser, authenticateUser,
\* verifyUserEmail, resendUserEmailVerification and logoutUser, every
\* session row and the session of the cookie belong to a user who exists
\* and whose emailVerified is set.
C21_SessionsOfVerifiedUsers ==
  /\ \A s \in sessions : VerifiedUser(s.userId)
  /\ \A ck \in cookie : VerifiedUser(ck.session.userId)

\* C21 witness: verifyUserEmail has created a session for the user and a
\* login of the user, now verified, has created a second one, whose cookie
\* is set.
C21_Witness ==
  /\ returned.op = "authenticateUser"
  /\ returned.ret = Outcome("success", "Logged in successfully")
  /\ Cardinality(sessions) = 2
  /\ \E ck \in cookie : ck.session.id = returned.sessionId

\* the step is the update by which a verifyUserEmail call writes
\* emailVerified of its user
WritesEmailVerified(p) == Moves(p, "v_update", "s_user")

C22_Step ==
  \A p \in Callers :
     WritesEmailVerified(p) =>
        \A u \in users : u.id = calls[p].userId => u.emailVerified = <<>>

C22_OneSession ==
  \A s \in sessions : \A t \in sessions : s.userId = t.userId => s.id = t.id

\* C22 (as stated): under any interleaving of verifyUserEmail calls with the
\* correct code for one unverified user, emailVerified is written at most
\* once, never again once it is set, and at most one session row is
\* created for the user.
C22_VerifiedOnce == []C22_OneSession /\ [][C22_Step]_vars

\* every call has completed and the last one to complete is a resend that
\* returned success
ResendsCompleted ==
  /\ \A p \in Callers : calls[p].pc = "idle"
  /\ returned.op = "resendUserEmailVerification"
  /\ returned.ret.status = "success"

\* C23 (as stated): once the resendUserEmailVerification calls for a user
\* have completed, the code of the notification sent last is the code in
\* the user's verification row.
C23_LastSentIsStored ==
  ResendsCompleted =>
    \A v \in verifications :
       v.userId = returned.userId => v.code = outbox[Len(outbox)].code

\* C24 (as stated): when createSession returns an error status, the
\* sessions store holds no row added by that call and the call has set no
\* session cookie.
C24_AllOrNothing ==
  (returned.op = "createSession" /\ returned.ret.status = "error") =>
     /\ \A s \in sessions : s.id # returned.sessionId
     /\ \A ck \in cookie : ck.session.id # returned.sessionId

=============================================================================
